---- MODULE Spec2Model ----
(***************************************************************************)
(* Panorama discovery (1_get_panoid_info.py): the worker pool of           *)
(* run_requests, its dedup gate and progress loop, and the retrying        *)
(* lookup fetch_best_panoid.                                               *)
(*                                                                         *)
(* The engine is modelled at statement granularity: every statement that   *)
(* touches shared state is a step of its own and asyncio.Lock is the only  *)
(* thing that excludes interleavings.  The schedules of the cooperative    *)
(* event loop are a subset of the schedules checked here.                  *)
(***************************************************************************)
EXTENDS Integers, Sequences, FiniteSets, TLC

\* ------------------------------------------------------------------ bounds
MaxPoints == 2
MaxConcurrency == 2

\* ------------------------------------------------------- program constants
\* fetch_best_panoid(..., max_retries=4); worker() calls it with the default.
max_retries == 4
\* the queue item None, the shutdown signal (points are 1..total)
Stop == 0
\* the task of run_requests itself, as a holder of the lock (workers are 1..concurrency)
MainTask == 0

\* values of config print_every the runs are started with
PrintEveryVals == {0, 2}
\* panorama ids the service may answer with
PanoIds == {"a", "b"}
\* a panoid that is falsy in `if pid`: the empty string, or None of a missing key
NoPid == ""

\* ------------------------------------------------------------------ values
\* What fetch_best_panoid hands back: None, a dict of the parsed list (pt names
\* the lookup whose response the dict object was parsed from), or a parsed
\* element that is no dict.
NoneResult == [kind |-> "None", panoid |-> NoPid, pt |-> 0]
DictResult(pid, p) == [kind |-> "dict", panoid |-> pid, pt |-> p]
OtherResult(p) == [kind |-> "other", panoid |-> NoPid, pt |-> p]

\* `best` of a response that parsed to a non-empty list, for the lookup of point p
Found(p) == {DictResult(pid, p) : pid \in PanoIds \cup {NoPid}} \cup {OtherResult(p)}

VARIABLES
  total,          \* len(points); the points are 1..total
  concurrency,    \* argument of run_requests
  print_every,    \* argument of run_requests
  queue,          \* asyncio.Queue: the items not yet taken
  unfinished,     \* asyncio.Queue's count of unfinished tasks
  seen_panoids,   \* set of ids
  unique_panoids, \* the accepted sequence
  stats,          \* [processed, unique]
  lock,           \* the set of tasks holding the asyncio.Lock
  limit,          \* TCPConnector(limit=...)
  w_pc, w_item, w_best, w_attempt,   \* each worker: position, item, best, attempt
  m_pc, m_processed, m_unique,       \* run_requests: position, sampled counters
  m_printed,      \* whether the last pass of the progress loop printed its line
  result,         \* what run_requests returned
  pulled,         \* per point: times it was taken from the queue
  looked,         \* per point: times fetch_best_panoid returned for it
  found_ids,      \* the ids the lookups have returned so far
  hits,           \* the lookups that returned a dict with an id
  counted,        \* per point: times it was counted in processed
  \* one call of fetch_best_panoid, followed attempt by attempt
  f_pc,           \* position: "idle", "attempt", "sleep", "returned", "raised"
  f_max_retries,  \* argument max_retries
  f_attempt,      \* the loop variable
  f_delay,        \* the local delay, in seconds
  f_resp,         \* what the last session.get came to
  f_failed,       \* attempts that ended in the except clause
  f_waits,        \* the sleeps made so far, in seconds
  f_ret,          \* the value returned: 0 for None, else the place of the
                  \* returned element in the parsed list
  \* the point source of __main__: the choice of a producer and its call
  p_pc,           \* position: "idle", "main", "built", "engine", "raised", "reingested"
  p_csv_path,     \* config.get("csv_points")
  p_header,       \* the file's header line: reader.fieldnames
  p_rows,         \* the file's data rows: the cells of the two columns
  p_center,       \* center, as handed to build_points_from_grid
  p_radius,       \* radius, km
  p_resolution,   \* resolution
  p_points,       \* test_points
  p_ran,          \* the producers called so far, in order
  p_error,        \* the exception that left the producer, "" for none
  p_again,        \* what build_points_from_csv gives for a file of test_points
  \* one call of filter_pano_json, followed record by record
  r_pc,           \* position: "idle", "loop", "returned"
  r_records,      \* argument records
  r_drop_invalid_month,   \* argument drop_invalid_month
  r_i,            \* the records the loop has been through
  r_out,          \* the local out
  r_stats,        \* the local stats
  \* one call of run_batches, followed request by request
  d_pc,           \* position: "idle", "batch", "gather", "returned", "raised"
  d_panoids,      \* len(panoids); the panoramas are 1..d_panoids
  d_batch_size,   \* argument batch_size
  d_start,        \* the loop variable start
  d_bad,          \* the tiles whose request fails whenever it is made
  d_one,          \* each download_one: position
  d_tile,         \* each download_tiles_async: the tiles it is through with
  d_attempts,     \* each download_tiles_async: failed requests of its tile
  d_written,      \* the tile files written
  d_completed     \* the "Completed batch" lines printed

vars == <<total, concurrency, print_every, queue, unfinished, seen_panoids,
          unique_panoids, stats, lock, limit, w_pc, w_item, w_best, w_attempt,
          m_pc, m_processed, m_unique, m_printed, result, pulled, looked, found_ids,
          hits, counted,
          f_pc, f_max_retries, f_attempt, f_delay, f_resp, f_failed, f_waits, f_ret,
          p_pc, p_csv_path, p_header, p_rows, p_center, p_radius, p_resolution,
          p_points, p_ran, p_error, p_again,
          r_pc, r_records, r_drop_invalid_month, r_i, r_out, r_stats,
          d_pc, d_panoids, d_batch_size, d_start, d_bad, d_one, d_tile, d_attempts,
          d_written, d_completed>>

engineVars == <<total, concurrency, print_every, queue, unfinished, seen_panoids,
                unique_panoids, stats, lock, limit, w_pc, w_item, w_best, w_attempt,
                m_pc, m_processed, m_unique, m_printed, result, pulled, looked,
                found_ids, hits, counted>>
fetchVars == <<f_pc, f_max_retries, f_attempt, f_delay, f_resp, f_failed, f_waits, f_ret>>
pointVars == <<p_pc, p_csv_path, p_header, p_rows, p_center, p_radius, p_resolution,
               p_points, p_ran, p_error, p_again>>
filterVars == <<r_pc, r_records, r_drop_invalid_month, r_i, r_out, r_stats>>
downloadVars == <<d_pc, d_panoids, d_batch_size, d_start, d_bad, d_one, d_tile,
                  d_attempts, d_written, d_completed>>
toolVars == <<filterVars, downloadVars>>

Points == 1..total

\* a pool of one task more than asked for
WorkersOneMore == 1..(concurrency + 1)
\* the tasks of `for i in range(concurrency)`
Workers == 1..concurrency

\* the workers inside fetch_best_panoid
InFetch == {w \in Workers : w_pc[w] \in {"request", "fetch", "sleep"}}
\* the requests holding a connection of the pool
InUse == {w \in Workers : w_pc[w] = "fetch"}
\* aiohttp: limit=0 is no limit
ConnAvailable == limit = 0 \/ Cardinality(InUse) < limit

\* asyncio.run tears the loop down once run_requests has raised
Running == m_pc # "raised"

\* no call of fetch_best_panoid is followed
NoResponse == [kind |-> "none", status |-> 0, parses |-> FALSE, panoids |-> <<>>]
FetchIdle ==
  /\ f_pc = "idle"
  /\ f_max_retries = 0
  /\ f_attempt = 0
  /\ f_delay = 0
  /\ f_resp = NoResponse
  /\ f_failed = 0
  /\ f_waits = <<>>
  /\ f_ret = 0

\* config.get("csv_points") of a config without the key: None
NoPath == "None"
\* the point source is not followed
PointsIdle ==
  /\ p_pc = "idle"
  /\ p_csv_path = NoPath
  /\ p_header = <<>>
  /\ p_rows = <<>>
  /\ p_center = <<0, 0>>
  /\ p_radius = 0
  /\ p_resolution = 0
  /\ p_points = <<>>
  /\ p_ran = <<>>
  /\ p_error = ""
  /\ p_again = <<>>

\* no call of filter_pano_json is followed
FilterIdle ==
  /\ r_pc = "idle"
  /\ r_records = <<>>
  /\ r_drop_invalid_month = TRUE
  /\ r_i = 0
  /\ r_out = <<>>
  /\ r_stats = <<>>

\* no call of run_batches is followed
DownloadIdle ==
  /\ d_pc = "idle"
  /\ d_panoids = 0
  /\ d_batch_size = 0
  /\ d_start = 0
  /\ d_bad = {}
  /\ d_one = <<>>
  /\ d_tile = <<>>
  /\ d_attempts = <<>>
  /\ d_written = {}
  /\ d_completed = 0

\* ------------------------------------------------------------ run_requests
Init ==
  /\ FetchIdle
  /\ PointsIdle
  /\ FilterIdle
  /\ DownloadIdle
  /\ total \in 0..MaxPoints
  /\ concurrency \in 0..MaxConcurrency
  /\ print_every \in PrintEveryVals
  /\ queue = [i \in 1..total |-> i]
  /\ unfinished = total
  /\ seen_panoids = {}
  /\ unique_panoids = <<>>
  /\ stats = [processed |-> 0, unique |-> 0]
  /\ lock = {}
  /\ limit = concurrency
  /\ w_pc = [w \in Workers |-> "get"]
  /\ w_item = [w \in Workers |-> Stop]
  /\ w_best = [w \in Workers |-> NoneResult]
  /\ w_attempt = [w \in Workers |-> 0]
  /\ m_pc = "sleep"
  /\ m_processed = 0
  /\ m_unique = 0
  /\ m_printed = FALSE
  /\ result = <<>>
  /\ pulled = [p \in Points |-> 0]
  /\ looked = [p \in Points |-> 0]
  /\ found_ids = {}
  /\ hits = 0
  /\ counted = [p \in Points |-> 0]

cfg == <<total, concurrency, print_every, limit, fetchVars, pointVars, toolVars>>
mainLocals == <<m_pc, m_processed, m_unique, m_printed, result>>

\* ------------------------------------------------------------------ worker
\* a get that reads the head of the queue and leaves it there
TakenNothing(q) == q
\* what queue.get() leaves in the queue
Taken(q) == Tail(q)
\* a task_done that leaves the count as it was
task_done_lost(n) == n
\* queue.task_done(): the count of unfinished tasks after it
task_done(n) == n - 1
\* a worker that forgets to count its point
IncProcessedLost(st) == st
\* stats["processed"] += 1
IncProcessed(st) == [st EXCEPT !.processed = @ + 1]
\* an insert that forgets the counter
IncUniqueLost(st) == st
\* stats["unique"] += 1
IncUnique(st) == [st EXCEPT !.unique = @ + 1]

\* item = await queue.get(); None: task_done and leave the loop; a point: call
\* fetch_best_panoid, which runs up to its first request.
WorkerGet(w) ==
  /\ Running
  /\ w_pc[w] = "get"
  /\ queue # <<>>
  /\ queue' = Taken(queue)
  /\ w_item' = [w_item EXCEPT ![w] = Head(queue)]
  /\ IF Head(queue) = Stop
       THEN /\ unfinished' = task_done(unfinished)
            /\ w_pc' = [w_pc EXCEPT ![w] = "exit"]
            /\ UNCHANGED <<w_attempt, pulled>>
       ELSE /\ w_pc' = [w_pc EXCEPT ![w] = "request"]
            /\ w_attempt' = [w_attempt EXCEPT ![w] = 0]
            /\ pulled' = [pulled EXCEPT ![Head(queue)] = @ + 1]
            /\ UNCHANGED unfinished
  /\ UNCHANGED <<cfg, mainLocals, seen_panoids, unique_panoids, stats, lock,
                 w_best, looked, found_ids, hits, counted>>

\* session.get(url): the request goes out once the pool has a connection for it
WorkerSend(w) ==
  /\ Running
  /\ w_pc[w] = "request"
  /\ ConnAvailable
  /\ w_pc' = [w_pc EXCEPT ![w] = "fetch"]
  /\ UNCHANGED <<cfg, mainLocals, queue, unfinished, seen_panoids, unique_panoids,
                 stats, lock, w_item, w_best, w_attempt, pulled, looked, found_ids, hits, counted>>

\* the panoid of r when the dedup gate would take it, as a set
IdOf(r) == IF r.kind = "dict" /\ r.panoid # NoPid THEN {r.panoid} ELSE {}

\* fetch_best_panoid returns r to the worker; its locals end with the call
Return(w, r) ==
  /\ w_best' = [w_best EXCEPT ![w] = r]
  /\ w_attempt' = [w_attempt EXCEPT ![w] = 0]
  /\ looked' = [looked EXCEPT ![w_item[w]] = @ + 1]
  /\ found_ids' = found_ids \cup IdOf(r)
  /\ hits' = hits + Cardinality(IdOf(r))
  /\ w_pc' = [w_pc EXCEPT ![w] = "lock1"]

\* `if attempt == max_retries - 1`
GivesUp(attempt, retries) == attempt = retries - 1

\* the attempt raised (status != 200, transport error, timeout, parse error):
\* the last attempt returns None, any other one sleeps
AttemptFailed(w) ==
  IF GivesUp(w_attempt[w], max_retries)
    THEN Return(w, NoneResult)
    ELSE /\ w_pc' = [w_pc EXCEPT ![w] = "sleep"]
         /\ UNCHANGED <<w_best, w_attempt, looked, found_ids, hits>>

\* the response parsed: an empty list returns None, else the nearest element
AttemptParsed(w, r) == Return(w, r)

\* the end of one attempt of fetch_best_panoid
WorkerRecv(w) ==
  /\ Running
  /\ w_pc[w] = "fetch"
  /\ \/ AttemptFailed(w)
     \/ \E r \in {NoneResult} \cup Found(w_item[w]) : AttemptParsed(w, r)
  /\ UNCHANGED <<cfg, mainLocals, queue, unfinished, seen_panoids, unique_panoids,
                 stats, lock, w_item, pulled, counted>>

\* await asyncio.sleep(delay) is over: the next attempt's request
WorkerWake(w) ==
  /\ Running
  /\ w_pc[w] = "sleep"
  /\ ConnAvailable
  /\ w_attempt' = [w_attempt EXCEPT ![w] = @ + 1]
  /\ w_pc' = [w_pc EXCEPT ![w] = "fetch"]
  /\ UNCHANGED <<cfg, mainLocals, queue, unfinished, seen_panoids, unique_panoids,
                 stats, lock, w_item, w_best, pulled, looked, found_ids, hits, counted>>

\* a block that keeps the lock when it is left
ReleasedNever(t) == lock
\* the end of `async with lock:` for task t: the holders that remain
Released(t) == lock \ {t}

\* an insert that leaves the seen set as it was
AddedNothing(seen, pid) == seen
\* seen_panoids.add(pid)
Added(seen, pid) == seen \cup {pid}

\* a list that takes its new record at the front
Prepended(accepted, best) == <<best>> \o accepted
\* unique_panoids.append(best)
Appended(accepted, best) == Append(accepted, best)

\* an acquire that does not wait for the holder
AcquireNoWait(t) == lock' = lock \cup {t}

\* asyncio.Lock.acquire by task t
Acquire(t) ==
  /\ lock = {}
  /\ lock' = {t}

\* async with lock: (the first one)
WorkerLock1(w) ==
  /\ Running
  /\ w_pc[w] = "lock1"
  /\ Acquire(w)
  /\ w_pc' = [w_pc EXCEPT ![w] = "inc"]
  /\ UNCHANGED <<cfg, mainLocals, queue, unfinished, seen_panoids, unique_panoids,
                 stats, w_item, w_best, w_attempt, pulled, looked, found_ids, hits, counted>>

\* the test `if best` alone
AcceptsTruthy(best) == best.kind # "None"
\* the test without `if pid`
AcceptsAnyDict(best) == best.kind = "dict"
\* no test of best at all
AcceptsAlways(best) == TRUE
\* `if best and isinstance(best, dict)` and `if pid`
Accepts(best) == best.kind = "dict" /\ best.panoid # NoPid

\* stats["processed"] += 1, the lock released, and the test of best
WorkerInc(w) ==
  /\ Running
  /\ w_pc[w] = "inc"
  /\ stats' = IncProcessed(stats)
  /\ counted' = [counted EXCEPT ![w_item[w]] = @ + 1]
  /\ lock' = Released(w)
  /\ w_pc' = [w_pc EXCEPT ![w] = IF Accepts(w_best[w]) THEN "lock2" ELSE "task_done"]
  /\ UNCHANGED <<cfg, mainLocals, queue, unfinished, seen_panoids, unique_panoids,
                 w_item, w_best, w_attempt, pulled, looked, found_ids, hits>>

\* async with lock: (the second one)
WorkerLock2(w) ==
  /\ Running
  /\ w_pc[w] = "lock2"
  /\ Acquire(w)
  /\ w_pc' = [w_pc EXCEPT ![w] = "dedup"]
  /\ UNCHANGED <<cfg, mainLocals, queue, unfinished, seen_panoids, unique_panoids,
                 stats, w_item, w_best, w_attempt, pulled, looked, found_ids, hits, counted>>

\* if pid not in seen_panoids: (a seen id releases the lock at once)
WorkerCheckSeen(w) ==
  /\ Running
  /\ w_pc[w] = "dedup"
  /\ IF w_best[w].panoid \notin seen_panoids
       THEN /\ w_pc' = [w_pc EXCEPT ![w] = "insert"]
            /\ UNCHANGED lock
       ELSE /\ w_pc' = [w_pc EXCEPT ![w] = "task_done"]
            /\ lock' = Released(w)
  /\ UNCHANGED <<cfg, mainLocals, queue, unfinished, seen_panoids, unique_panoids,
                 stats, w_item, w_best, w_attempt, pulled, looked, found_ids, hits, counted>>

\* seen_panoids.add(pid); unique_panoids.append(best); stats["unique"] += 1
WorkerInsert(w) ==
  /\ Running
  /\ w_pc[w] = "insert"
  /\ seen_panoids' = Added(seen_panoids, w_best[w].panoid)
  /\ unique_panoids' = Appended(unique_panoids, w_best[w])
  /\ stats' = IncUnique(stats)
  /\ lock' = Released(w)
  /\ w_pc' = [w_pc EXCEPT ![w] = "task_done"]
  /\ UNCHANGED <<cfg, mainLocals, queue, unfinished, w_item, w_best, w_attempt,
                 pulled, looked, found_ids, hits, counted>>

\* queue.task_done() and back to the top of the loop, where item and best are
\* assigned before they are read again
WorkerTaskDone(w) ==
  /\ Running
  /\ w_pc[w] = "task_done"
  /\ unfinished' = task_done(unfinished)
  /\ w_pc' = [w_pc EXCEPT ![w] = "get"]
  /\ w_item' = [w_item EXCEPT ![w] = Stop]
  /\ w_best' = [w_best EXCEPT ![w] = NoneResult]
  /\ UNCHANGED <<cfg, mainLocals, queue, seen_panoids, unique_panoids, stats, lock,
                 w_attempt, pulled, looked, found_ids, hits, counted>>

Worker(w) ==
  \/ WorkerGet(w)
  \/ WorkerSend(w)
  \/ WorkerRecv(w)
  \/ WorkerWake(w)
  \/ WorkerLock1(w)
  \/ WorkerInc(w)
  \/ WorkerLock2(w)
  \/ WorkerCheckSeen(w)
  \/ WorkerInsert(w)
  \/ WorkerTaskDone(w)

\* ------------------------------------------------- run_requests, continued
workerLocals == <<w_pc, w_item, w_best, w_attempt>>
history == <<pulled, looked, found_ids, hits, counted>>

\* await asyncio.sleep(1.0) is over, and `async with lock:` of the progress loop
MainAcquire ==
  /\ m_pc = "sleep"
  /\ Acquire(MainTask)
  /\ m_pc' = "read"
  /\ UNCHANGED <<cfg, workerLocals, history, queue, unfinished, seen_panoids,
                 unique_panoids, stats, m_processed, m_unique, m_printed, result>>

Abs(n) == IF n < 0 THEN -n ELSE n

\* `processed % print_every` raises ZeroDivisionError for print_every = 0
ReportRaises(processed) == processed # 0 /\ print_every = 0
\* `if processed and (processed % print_every == 0)`
ReportPrints(processed) ==
  processed # 0 /\ print_every # 0 /\ processed % Abs(print_every) = 0
\* a loop that ends one point early
LoopEndsEarly(processed) == processed >= total - 1
\* `if processed >= len(points): break`
LoopEnds(processed) == processed >= total

\* where the loop body goes after the sample
AfterSample(processed) ==
  IF ReportRaises(processed) THEN "raised"
  ELSE IF LoopEnds(processed) THEN "stop" ELSE "sleep"

\* processed = stats["processed"]; unique = stats["unique"]; the lock released;
\* the print, and the test that ends the progress loop.  A loop that goes on
\* assigns both locals again before it reads them: they are kept only when the
\* loop is left.
MainSample ==
  /\ m_pc = "read"
  /\ m_pc' = AfterSample(stats.processed)
  /\ m_processed' = IF m_pc' = "sleep" THEN 0 ELSE stats.processed
  /\ m_unique' = IF m_pc' = "sleep" THEN 0 ELSE stats.unique
  /\ m_printed' = ReportPrints(stats.processed)
  /\ lock' = Released(MainTask)
  /\ UNCHANGED <<cfg, workerLocals, history, queue, unfinished, seen_panoids,
                 unique_panoids, stats, result>>

\* the sequence of n shutdown signals
Stops(n) == [i \in 1..n |-> Stop]

\* for _ in workers: queue.put_nowait(None)
MainStop ==
  /\ m_pc = "stop"
  /\ queue' = queue \o Stops(concurrency)
  /\ unfinished' = unfinished + concurrency
  /\ m_pc' = "join"
  /\ UNCHANGED <<cfg, workerLocals, history, seen_panoids, unique_panoids, stats,
                 lock, m_processed, m_unique, m_printed, result>>

\* await queue.join()
MainJoin ==
  /\ m_pc = "join"
  /\ unfinished = 0
  /\ m_pc' = "gather"
  /\ UNCHANGED <<cfg, workerLocals, history, queue, unfinished, seen_panoids,
                 unique_panoids, stats, lock, m_processed, m_unique, m_printed, result>>

\* await asyncio.gather(*workers); the session closes; return unique_panoids
MainReturn ==
  /\ m_pc = "gather"
  /\ \A w \in Workers : w_pc[w] = "exit"
  /\ result' = unique_panoids
  /\ m_pc' = "done"
  /\ UNCHANGED <<cfg, workerLocals, history, queue, unfinished, seen_panoids,
                 unique_panoids, stats, lock, m_processed, m_unique, m_printed>>

Next ==
  \/ \E w \in Workers : Worker(w)
  \/ MainAcquire
  \/ MainSample
  \/ MainStop
  \/ MainJoin
  \/ MainReturn

Spec == Init /\ [][Next]_vars

\* -------------------------------------------------------- fetch_best_panoid
\* One call, followed on its own.  The query point is (0, 0) and every parsed
\* candidate lies on its meridian: there the haversine formula comes to
\* R * |lat2 - lat1|, so with latitudes in milliradians distance_km is a whole
\* number of metres.
MaxRetries == 6
MaxCands == 3

\* R = 6373.0
R == 6373
\* delay = 1.0
InitialDelay == 1
\* min(delay * 2, 10.0)
MaxDelay == 10

\* a coordinate of a parsed candidate: a number, or a value float() rejects
Number(x) == [ok |-> TRUE, v |-> x]
NotANumber == [ok |-> FALSE, v |-> 0]
Lats == {Number(-1), Number(1), Number(2), NotANumber}
Lons == {Number(0), NotANumber}
QueryPoint == <<0, 0>>

\* the parsed lists: up to MaxCands candidates
Candidates == [lat : Lats, lon : Lons]
PanoidLists == UNION {[1..n -> Candidates] : n \in 0..MaxCands}

\* what one session.get comes to: a transport error or timeout, or a response
\* with a status whose body parses to a list or makes the parser raise
TransportError == [kind |-> "error", status |-> 0, parses |-> FALSE, panoids |-> <<>>]
Response(status, parses, ps) ==
  [kind |-> "response", status |-> status, parses |-> parses, panoids |-> ps]
Responses ==
  {TransportError, Response(500, TRUE, <<>>), Response(204, TRUE, <<>>),
   Response(200, FALSE, <<>>)}
    \cup {Response(200, TRUE, ps) : ps \in PanoidLists}

\* distance_km for two points of one meridian, in metres
distance_km(p1, p2) == R * Abs(p2[1] - p1[1])

\* d_km: the distance of candidate p, float("inf") when float() raises
Infinite == [inf |-> TRUE, m |-> 0]
\* a d_km whose except clause gives 0.0
d_km_zero(p) ==
  IF p.lat.ok /\ p.lon.ok
    THEN [inf |-> FALSE, m |-> distance_km(QueryPoint, <<p.lat.v, p.lon.v>>)]
    ELSE [inf |-> FALSE, m |-> 0]
d_km(p) ==
  IF p.lat.ok /\ p.lon.ok
    THEN [inf |-> FALSE, m |-> distance_km(QueryPoint, <<p.lat.v, p.lon.v>>)]
    ELSE Infinite

\* a < b on the keys
Less(a, b) == ~a.inf /\ (b.inf \/ a.m < b.m)

\* a min that lets a later element of an equal key take the place
ReplacesOnTie(a, b) == ~Less(b, a)
\* min keeps its element until a key is less than that element's key
Replaces(a, b) == Less(a, b)

\* min(panoids, key=d_km): the place of the element min keeps, going through the
\* list and replacing the kept element when a key is less than its key
RECURSIVE MinFrom(_, _, _)
MinFrom(ps, i, kept) ==
  IF i > Len(ps) THEN kept
  ELSE MinFrom(ps, i + 1, IF Replaces(d_km(ps[i]), d_km(ps[kept])) THEN i ELSE kept)
Best(ps) == MinFrom(ps, 2, 1)

\* a try block in which an empty list is an error as well
AttemptRaisesOnEmpty(resp) ==
  resp.kind = "error" \/ resp.status # 200 \/ ~resp.parses \/ resp.panoids = <<>>
\* the try block raises: `raise RuntimeError` for a status other than 200, the
\* errors of session.get and resp.text(), the errors of panoids_from_response
AttemptRaises(resp) == resp.kind = "error" \/ resp.status # 200 \/ ~resp.parses

\* an except clause for the errors of the HTTP client alone
CaughtClientErrorsOnly(resp) == resp.kind = "error"
\* `except Exception` takes whatever the try block raises
Caught(resp) == TRUE

\* the call begins: delay = 1.0 and the loop starts
FetchStart ==
  /\ f_pc = "attempt"
  /\ f_max_retries \in 0..MaxRetries
  /\ f_attempt = 0
  /\ f_delay = InitialDelay
  /\ f_resp = NoResponse
  /\ f_failed = 0
  /\ f_waits = <<>>
  /\ f_ret = 0

\* the run_requests state while a call is followed on its own
EngineIdle ==
  /\ total = 0
  /\ concurrency = 0
  /\ print_every = 0
  /\ queue = <<>>
  /\ unfinished = 0
  /\ seen_panoids = {}
  /\ unique_panoids = <<>>
  /\ stats = [processed |-> 0, unique |-> 0]
  /\ lock = {}
  /\ limit = 0
  /\ w_pc = <<>>
  /\ w_item = <<>>
  /\ w_best = <<>>
  /\ w_attempt = <<>>
  /\ m_pc = "idle"
  /\ m_processed = 0
  /\ m_unique = 0
  /\ m_printed = FALSE
  /\ result = <<>>
  /\ pulled = <<>>
  /\ looked = <<>>
  /\ found_ids = {}
  /\ hits = 0
  /\ counted = <<>>

\* one pass of the loop body up to its return, its sleep or an escaping error
FetchAttempt ==
  /\ f_pc = "attempt"
  /\ f_attempt < f_max_retries
  /\ \E resp \in Responses :
       /\ f_resp' = resp
       /\ IF AttemptRaises(resp)
            THEN IF Caught(resp)
                   THEN /\ f_failed' = f_failed + 1
                        /\ f_pc' = IF GivesUp(f_attempt, f_max_retries)
                                     THEN "returned" ELSE "sleep"
                        /\ f_ret' = 0
                   ELSE /\ f_pc' = "raised"
                        /\ UNCHANGED <<f_failed, f_ret>>
            ELSE /\ f_pc' = "returned"
                 /\ f_ret' = IF resp.panoids = <<>> THEN 0 ELSE Best(resp.panoids)
                 /\ UNCHANGED f_failed
  /\ UNCHANGED <<engineVars, pointVars, toolVars, f_max_retries, f_attempt, f_delay, f_waits>>

\* a delay that doubles without end
NextDelayUncapped(delay) == delay * 2
\* delay = min(delay * 2, 10.0)
NextDelay(delay) == IF delay * 2 < MaxDelay THEN delay * 2 ELSE MaxDelay

\* await asyncio.sleep(delay); delay = min(delay * 2, 10.0); the next pass
FetchSleep ==
  /\ f_pc = "sleep"
  /\ f_waits' = Append(f_waits, f_delay)
  /\ f_delay' = NextDelay(f_delay)
  /\ f_attempt' = f_attempt + 1
  /\ f_pc' = "attempt"
  /\ UNCHANGED <<engineVars, pointVars, toolVars, f_max_retries, f_resp, f_failed, f_ret>>

\* range(max_retries) is used up without a return: the function ends, None
FetchFallsOff ==
  /\ f_pc = "attempt"
  /\ f_attempt >= f_max_retries
  /\ f_pc' = "returned"
  /\ f_ret' = 0
  /\ UNCHANGED <<engineVars, pointVars, toolVars, f_max_retries, f_attempt, f_delay, f_resp, f_failed,
                 f_waits>>

FetchNext ==
  \/ FetchAttempt
  \/ FetchSleep
  \/ FetchFallsOff

FetchInit ==
  /\ EngineIdle
  /\ PointsIdle
  /\ FilterIdle
  /\ DownloadIdle
  /\ FetchStart

SpecFetch == FetchInit /\ [][FetchNext]_vars

\* ------------------------------------------------------ build_points_from_csv
\* Coordinates are whole numbers of 10^-7 degree, so that the digit after the
\* sixth decimal place is part of the value.  Values whose seventh decimal is 5
\* are left out: their binary floats lie off the tie, on a side the decimal
\* text does not tell.
MaxRows == 3
Decimals == 7

\* a parser of plain decimals, to which 4e-07 is no number
ParseFloatPlain(text) ==
  CASE text = "0.0000004" -> Number(4)
    [] text = "0.0000006" -> Number(6)
    [] text = "0.0000014" -> Number(14)
    [] text = "0.0000016" -> Number(16)
    [] OTHER -> NotANumber
\* float(text): the number a cell's text stands for, or the ValueError of a
\* text that is no number.  Python writes 4e-07 for the float of 0.0000004.
ParseFloat(text) ==
  CASE text \in {"0.0000004", "4e-07"} -> Number(4)
    [] text \in {"0.0000006", "6e-07"} -> Number(6)
    [] text \in {"0.0000014", "1.4e-06"} -> Number(14)
    [] text \in {"0.0000016", "1.6e-06"} -> Number(16)
    [] OTHER -> NotANumber

\* str(x) of a float, the text a writer of points puts into a cell
repr(x) ==
  CASE x = 4 -> "4e-07"
    [] x = 6 -> "6e-07"
    [] x = 14 -> "1.4e-06"
    [] x = 16 -> "1.6e-06"
    [] OTHER -> "nan"

\* h.lower()
lower(h) ==
  CASE h \in {"Latitude", "LATITUDE"} -> "latitude"
    [] h \in {"Longitude", "LONGITUDE"} -> "longitude"
    [] h = "ID" -> "id"
    [] OTHER -> h

\* the header lines of the files: both columns in several cases and orders and
\* among other columns, one of the two missing, both missing, an empty file
Headers ==
  {<<"latitude", "longitude">>, <<"id", "LONGITUDE", "Latitude">>,
   <<"Longitude", "LATITUDE", "ID">>, <<"id", "longitude">>, <<"Latitude", "id">>,
   <<"lat", "lon">>, <<>>}
\* the data rows: the cells under the latitude and the longitude column
Row(lat, lon) == [latitude |-> lat, longitude |-> lon]
CsvRows ==
  {Row("0.0000004", "0.0000004"), Row("6e-07", "0.0000004"),
   Row("0.0000014", "0.0000004"), Row("0.0000004", "0.0000016"),
   Row("abc", "0.0000004"), Row("0.0000004", "")}
CsvFiles == UNION {[1..n -> CsvRows] : n \in 0..MaxRows}

\* fields.get(name) of fields = {h.lower(): h for h in reader.fieldnames or []}:
\* the last column of that lowered name, "" for the None of a missing one
NoColumn == ""
Column(header, name) ==
  LET named == {i \in 1..Len(header) : lower(header[i]) = name}
  IN IF named = {} THEN NoColumn
     ELSE header[CHOOSE i \in named : \A j \in named : j <= i]

\* a check that lets a file pass when it has one of the two columns
HeaderRejectedIfNeither(header) ==
  Column(header, "latitude") = NoColumn /\ Column(header, "longitude") = NoColumn
\* if not lat_col or not lon_col: raise ValueError
HeaderRejected(header) ==
  Column(header, "latitude") = NoColumn \/ Column(header, "longitude") = NoColumn

\* a loop body that takes a cell that is no number for 0.0
row_points_zero(row) ==
  <<(<<ParseFloat(row.latitude).v, ParseFloat(row.longitude).v>>)>>
\* the loop body: what one row adds to pts, nothing when a float() raises
row_points(row) ==
  LET lat == ParseFloat(row.latitude)
      lon == ParseFloat(row.longitude)
  IN IF lat.ok /\ lon.ok THEN <<(<<lat.v, lon.v>>)>> ELSE <<>>

\* the loop over the rows: pts, a row whose float() raises being passed over
RECURSIVE Parsed(_, _)
Parsed(rows, i) ==
  IF i > Len(rows) THEN <<>>
  ELSE row_points(rows[i]) \o Parsed(rows, i + 1)

RECURSIVE Pow10(_)
Pow10(n) == IF n = 0 THEN 1 ELSE 10 * Pow10(n - 1)
\* a rounding that cuts the digits off
truncated(x, ndigits) ==
  LET q == Pow10(Decimals - ndigits)
  IN IF x < 0 THEN -((Abs(x) \div q) * q) ELSE (x \div q) * q
\* round(x, ndigits): the nearest multiple of 10^-ndigits
round(x, ndigits) ==
  LET q == Pow10(Decimals - ndigits)
      r == ((Abs(x) + q \div 2) \div q) * q
  IN IF x < 0 THEN -r ELSE r

\* key = (round(lat, 6), round(lon, 6))
key(lat, lon) == <<round(lat, 6), round(lon, 6)>>
\* an entry that carries the rounded values
entry_rounded(lat, lon) == key(lat, lon)
\* out.append((lat, lon))
entry(lat, lon) == <<lat, lon>>

\* the de-dupe loop over pts from place i on, with seen and out as they stand
RECURSIVE Dedup(_, _, _, _)
Dedup(pts, i, seen, out) ==
  IF i > Len(pts) THEN out
  ELSE LET k == key(pts[i][1], pts[i][2])
       IN IF k \in seen
            THEN Dedup(pts, i + 1, seen, out)
            ELSE Dedup(pts, i + 1, seen \cup {k},
                       Append(out, entry(pts[i][1], pts[i][2])))

\* what a producer comes to: the exception that leaves it, or the list returned
Raises(error) == [error |-> error, pts |-> <<>>]
Returns(pts) == [error |-> "", pts |-> pts]

build_points_from_csv(header, rows) ==
  IF HeaderRejected(header) THEN Raises("ValueError")
  ELSE Returns(Dedup(Parsed(rows, 1), 1, {}, <<>>))

\* ----------------------------------------------------- build_points_from_grid
\* Grid coordinates are whole numbers of 1/(70 * Fine) degree, Fine being the
\* least common multiple of the resolutions: radius_km / 70 degrees are
\* radius_km * Fine units and every lattice step is a whole number of units.
MaxResolution == 3
MaxRadius == 2

RECURSIVE GCD(_, _)
GCD(a, b) == IF b = 0 THEN a ELSE GCD(b, a % b)
RECURSIVE LCMUpTo(_)
LCMUpTo(n) == IF n <= 1 THEN 1 ELSE (LCMUpTo(n - 1) * n) \div GCD(LCMUpTo(n - 1), n)
Fine == LCMUpTo(MaxResolution)

\* the centers: a point of the equator, and a point at 60 degrees north
Lat60 == 60 * 70 * Fine
Centers == {<<0, 0>>, <<Lat60, 0>>}
\* cos(lat)^2 at the center's latitude
CosSq(center) == IF center[1] = 0 THEN [num |-> 1, den |-> 1] ELSE [num |-> 1, den |-> 4]

\* (pi * R / (180 * 70))^2 = 2.52487...: the square of the kilometres that
\* distance_km gives for one unit of the box, radius_km / 70 degrees, per radius_km
RatioNum == 25249
RatioDen == 10000

\* a filter that leaves the points of the rim out
within_radius_strict(p, center, radius_km) ==
  LET dlat == p[1] - center[1]
      dlon == p[2] - center[2]
      c == CosSq(center)
  IN RatioNum * (c.den * dlat * dlat + c.num * dlon * dlon)
       < RatioDen * c.den * (Fine * radius_km) * (Fine * radius_km)
\* distance_km(p, center) <= radius_km, for radius_km >= 0 and a p of the box:
\* at these distances the haversine formula comes to
\* R * sqrt(dlat^2 + cos(lat)^2 * dlon^2) with dlat and dlon in radians, and the
\* comparison is made on the squares
within_radius(p, center, radius_km) ==
  LET dlat == p[1] - center[1]
      dlon == p[2] - center[2]
      c == CosSq(center)
  IN RatioNum * (c.den * dlat * dlat + c.num * dlon * dlon)
       <= RatioDen * c.den * (Fine * radius_km) * (Fine * radius_km)

\* a lattice of resolution points a side
grid_short(resolution) ==
  [k \in 1..(resolution * resolution) |->
     <<(k - 1) \div resolution, (k - 1) % resolution>>]
\* list(itertools.product(range(resolution + 1), range(resolution + 1)))
grid(resolution) ==
  [k \in 1..((resolution + 1) * (resolution + 1)) |->
     <<(k - 1) \div (resolution + 1), (k - 1) % (resolution + 1)>>]

build_points_from_grid(center, radius_km, resolution) ==
  LET top_left == <<center[1] - radius_km * Fine, center[2] + radius_km * Fine>>
      bottom_right == <<center[1] + radius_km * Fine, center[2] - radius_km * Fine>>
      lat_diff == top_left[1] - bottom_right[1]
      lon_diff == top_left[2] - bottom_right[2]
      g == grid(resolution)
      pts == [k \in 1..Len(g) |->
                <<bottom_right[1] + (g[k][1] * lat_diff) \div resolution,
                  bottom_right[2] + (g[k][2] * lon_diff) \div resolution>>]
  IN IF g # <<>> /\ resolution = 0 THEN Raises("ZeroDivisionError")
     ELSE Returns(SelectSeq(pts, LAMBDA p : within_radius(p, center, radius_km)))

\* ------------------------------------------------- __main__: the point source
\* the values of config csv_points: no key, an empty text, a directory, a path
\* that names nothing, a file
CsvPaths == {NoPath, "", "data", "missing.csv", "points.csv"}
Files == {"points.csv"}
Directories == {"data"}
\* `if csv_path`
Truthy(path) == path \notin {NoPath, ""}
\* a test that takes a directory for a file
exists(path) == path \in Files \cup Directories
\* Path(csv_path).is_file()
is_file(path) == path \in Files

\* __main__ has read its configuration
PointsStart ==
  /\ p_pc = "main"
  /\ \/ /\ p_csv_path \in Files
        /\ p_header \in Headers
        /\ p_rows \in CsvFiles
        /\ p_center = <<0, 0>>
        /\ p_radius = 1
        /\ p_resolution = 1
     \/ /\ p_csv_path \in CsvPaths \ Files
        /\ p_header = <<>>
        /\ p_rows = <<>>
        /\ p_center \in Centers
        /\ p_radius \in 0..MaxRadius
        /\ p_resolution \in 0..MaxResolution
  /\ p_points = <<>>
  /\ p_ran = <<>>
  /\ p_error = ""
  /\ p_again = <<>>

\* test_points = build_points_from_csv(csv_path); the center that is set from
\* the points is the map's and is not followed
MainCsv ==
  /\ p_pc = "main"
  /\ Truthy(p_csv_path) /\ is_file(p_csv_path)
  /\ LET r == build_points_from_csv(p_header, p_rows)
     IN /\ p_points' = r.pts
        /\ p_error' = r.error
        /\ p_pc' = IF r.error = "" THEN "built" ELSE "raised"
  /\ p_ran' = Append(p_ran, "csv")
  /\ UNCHANGED <<engineVars, fetchVars, toolVars, p_csv_path, p_header, p_rows, p_center,
                 p_radius, p_resolution, p_again>>

\* else: test_points = build_points_from_grid(center, radius, resolution)
MainGrid ==
  /\ p_pc = "main"
  /\ ~(Truthy(p_csv_path) /\ is_file(p_csv_path))
  /\ LET r == build_points_from_grid(p_center, p_radius, p_resolution)
     IN /\ p_points' = r.pts
        /\ p_error' = r.error
        /\ p_pc' = IF r.error = "" THEN "built" ELSE "raised"
  /\ p_ran' = Append(p_ran, "grid")
  /\ UNCHANGED <<engineVars, fetchVars, toolVars, p_csv_path, p_header, p_rows, p_center,
                 p_radius, p_resolution, p_again>>

\* the prints, then asyncio.run(run_requests(test_points, ...))
MainRun ==
  /\ p_pc = "built"
  /\ p_pc' = "engine"
  /\ UNCHANGED <<engineVars, fetchVars, toolVars, p_csv_path, p_header, p_rows, p_center,
                 p_radius, p_resolution, p_points, p_ran, p_error, p_again>>

\* the points returned, written out as a file of their own and read again
CsvReingest ==
  /\ p_pc = "built"
  /\ p_ran = <<"csv">>
  /\ LET rows == [k \in 1..Len(p_points) |->
                    Row(repr(p_points[k][1]), repr(p_points[k][2]))]
     IN p_again' = build_points_from_csv(<<"latitude", "longitude">>, rows).pts
  /\ p_pc' = "reingested"
  /\ UNCHANGED <<engineVars, fetchVars, toolVars, p_csv_path, p_header, p_rows, p_center,
                 p_radius, p_resolution, p_points, p_ran, p_error>>

PointsNext ==
  \/ MainCsv
  \/ MainGrid
  \/ MainRun
  \/ CsvReingest

PointsInit ==
  /\ EngineIdle
  /\ FetchIdle
  /\ FilterIdle
  /\ DownloadIdle
  /\ PointsStart

SpecPoints == PointsInit /\ [][PointsNext]_vars

\* The event loop runs its ready tasks in turn and asyncio.Lock wakes its waiters
\* in turn: a task that can step again and again does step.
LiveSpec ==
  /\ Spec
  /\ \A w \in 1..MaxConcurrency : SF_vars(w \in Workers /\ Worker(w))
  /\ SF_vars(MainAcquire)
  /\ WF_vars(MainSample \/ MainStop \/ MainJoin \/ MainReturn)

TypeOK ==
  /\ total \in 0..MaxPoints
  /\ concurrency \in 0..MaxConcurrency
  /\ stats.processed \in 0..total
  /\ stats.unique \in 0..total
  /\ unfinished \in 0..(total + concurrency)
  /\ lock \subseteq {MainTask} \cup Workers

\* ------------------------------------------------------------ the engine's claims
Accepted == {unique_panoids[i].panoid : i \in 1..Len(unique_panoids)}
StopsQueued == {i \in 1..Len(queue) : queue[i] = Stop}
PointsQueued == {queue[i] : i \in 1..Len(queue)} \ {Stop}
Exited == {w \in Workers : w_pc[w] = "exit"}
Stopping == m_pc \in {"join", "gather", "done"}
Holders(p) == {w \in Workers : w_item[w] = p}
RECURSIVE Sum(_, _)
Sum(f, S) == IF S = {} THEN 0 ELSE LET x == CHOOSE x \in S : TRUE IN f[x] + Sum(f, S \ {x})

\* C1: in every interleaving each panorama id occurs at most once in the accepted
\* sequence, and no two workers are both past the test `pid not in seen_panoids`
\* on the way to append: the worker about to append holds the lock alone and its
\* id is still absent from the seen set.
C1_IdAcceptedAtMostOnce ==
  /\ \A i, j \in 1..Len(unique_panoids) :
       unique_panoids[i].panoid = unique_panoids[j].panoid => i = j
  /\ \A w \in Workers : w_pc[w] = "insert" =>
       /\ lock = {w}
       /\ w_best[w].panoid \notin seen_panoids
       /\ \A v \in Workers \ {w} : w_pc[v] \notin {"dedup", "insert"}

\* C1's case: one worker is about to append an id while another worker, whose
\* point resolved to the same id, waits at the dedup gate.
C1_Witness ==
  \E w, v \in Workers :
    /\ w # v
    /\ w_pc[w] = "insert"
    /\ w_pc[v] = "lock2"
    /\ w_best[w].panoid = w_best[v].panoid

\* C2: when run_requests returns, unique = size of the seen set = length of the
\* accepted sequence, and processed = the number of points of the run.
C2_CountersAtReturn ==
  m_pc = "done" =>
    /\ stats.unique = Cardinality(seen_panoids)
    /\ stats.unique = Len(unique_panoids)
    /\ stats.processed = total

C2_Witness ==
  /\ m_pc = "done"
  /\ total = MaxPoints
  /\ stats.unique >= 1
  /\ stats.unique < stats.processed

\* C3: with at least one worker and fair scheduling every run comes to
\* processed = total, the workers exit and run_requests returns the accepted
\* sequence.
C3_RunReturns ==
  (concurrency >= 1) =>
    <>(/\ m_pc = "done"
       /\ stats.processed = total
       /\ Exited = Workers
       /\ result = unique_panoids)

\* The same property for the runs whose progress loop cannot raise.  It holds
\* under LiveSpec: print_every = 0 is the only way a run of C3 fails to return.
RunReturnsUnlessReportRaises ==
  (concurrency >= 1 /\ print_every # 0) =>
    <>(/\ m_pc = "done"
       /\ stats.processed = total
       /\ Exited = Workers
       /\ result = unique_panoids)

\* C4: shutdown signals are queued only after the progress loop saw
\* processed >= total, one per worker; each worker takes one and stops;
\* run_requests returns only after every worker has exited; no signal is in the
\* queue together with a point, and nothing is appended after the return.
C4_OrderlyShutdown ==
  /\ (StopsQueued # {} \/ Exited # {}) => (Stopping /\ m_processed >= total)
  /\ Stopping => Cardinality(StopsQueued) + Cardinality(Exited) = concurrency
  /\ StopsQueued # {} => (PointsQueued = {} /\ stats.processed = total)
  /\ m_pc = "done" => (Exited = Workers /\ queue = <<>> /\ unique_panoids = result)

C4_Witness ==
  /\ m_pc = "done"
  /\ concurrency = MaxConcurrency
  /\ total = MaxPoints
  /\ Len(result) >= 1

\* C5: the lookups in flight never exceed concurrency, the connections in use
\* never exceed the pool limit, and the pool limit is concurrency.
C5_InFlightBounded ==
  /\ Cardinality(InFetch) <= concurrency
  /\ limit = concurrency
  /\ Cardinality(InUse) <= limit

\* C5's case: every worker is inside a lookup while points are still queued.
C5_Witness ==
  /\ concurrency >= 1
  /\ Cardinality(InFetch) = concurrency
  /\ Cardinality(InUse) = concurrency
  /\ PointsQueued # {}

\* C6: at completion the ids of the accepted sequence are exactly the distinct
\* non-empty ids the lookups returned; N points resolving to one id give
\* unique = 1 and processed = N, N points resolving to N ids give N candidates,
\* unique = N and processed = N.
C6_AcceptedIsWhatWasFound ==
  m_pc = "done" =>
    /\ Accepted = found_ids
    /\ (total >= 1 /\ hits = total /\ Cardinality(found_ids) = 1)
         => (stats.unique = 1 /\ stats.processed = total)
    /\ (hits = total /\ Cardinality(found_ids) = total)
         => (Len(result) = total /\ stats.unique = total /\ stats.processed = total)

\* C6's case: a completed run all of whose points resolved to the same id.
C6_Witness ==
  /\ m_pc = "done"
  /\ total = MaxPoints
  /\ hits = total
  /\ Cardinality(found_ids) = 1

\* C7: every point is pulled by exactly one worker, looked up once and counted
\* once, whatever its lookup gave: a point is in the queue, or with exactly one
\* worker, or counted; processed counts each point once; at the return every
\* point has been pulled, looked up and counted.
C7_EachPointOnce ==
  /\ \A p \in Points :
       /\ pulled[p] <= 1 /\ looked[p] <= 1 /\ counted[p] <= 1
       /\ Cardinality(Holders(p)) <= 1
       /\ IF p \in PointsQueued
            THEN pulled[p] = 0 /\ Holders(p) = {}
            ELSE pulled[p] = 1
       /\ \A w \in Holders(p) :
            /\ looked[p] = (IF w_pc[w] \in {"request", "fetch", "sleep"} THEN 0 ELSE 1)
            /\ counted[p] = (IF w_pc[w] \in {"request", "fetch", "sleep", "lock1", "inc"}
                             THEN 0 ELSE 1)
       /\ (pulled[p] = 1 /\ Holders(p) = {}) => (looked[p] = 1 /\ counted[p] = 1)
       /\ (m_pc = "done" => counted[p] = 1)
  /\ stats.processed = Sum(counted, Points)

C7_Witness ==
  /\ m_pc = "done"
  /\ total = MaxPoints
  /\ hits = 1

\* C9: a worker whose lookup gave None counts the point in processed and leaves
\* unique, the seen set and the accepted sequence as they are; it releases the
\* lock, marks the item done and goes back to the queue.
C9_NoneOnlyCounts ==
  [][\A w \in Workers :
       (/\ w_best[w].kind = "None"
        /\ w_pc[w] \in {"lock1", "inc", "task_done"}
        /\ w_pc'[w] # w_pc[w])
       => /\ seen_panoids' = seen_panoids
          /\ unique_panoids' = unique_panoids
          /\ stats'.unique = stats.unique
          /\ stats'.processed = stats.processed + (IF w_pc[w] = "inc" THEN 1 ELSE 0)
          /\ w_pc'[w] = (CASE w_pc[w] = "lock1" -> "inc"
                           [] w_pc[w] = "inc" -> "task_done"
                           [] w_pc[w] = "task_done" -> "get")
          /\ (w_pc[w] = "inc" => lock' = {})]_vars

\* C9's case: a worker has counted a point whose lookup gave None and another
\* point is still to be processed.
C9_Witness ==
  \E w \in Workers :
    /\ w_pc[w] = "task_done"
    /\ w_best[w].kind = "None"
    /\ counted[w_item[w]] = 1
    /\ stats.unique = 0
    /\ \E p \in Points : counted[p] = 0

\* ------------------------------------------------ the engine's claims, continued
\* C24: the lock is held only inside the two blocks of a worker (the processed
\* increment; the test and insert on the seen set, the accepted sequence and
\* the unique counter) and inside the counter read of the progress loop: never
\* by a task at a queue pull, in a lookup or its backoff sleep, or in the
\* progress loop's sleep.
C24_LockOnlyAroundUpdates ==
  /\ Cardinality(lock) <= 1
  /\ \A w \in Workers : w \in lock <=> w_pc[w] \in {"inc", "dedup", "insert"}
  /\ MainTask \in lock <=> m_pc = "read"

\* C24's case: a worker holds the lock for its increment while another worker's
\* lookup is in flight and the progress loop sleeps.
C24_Witness ==
  \E w, v \in Workers :
    /\ lock = {w}
    /\ w_pc[w] = "inc"
    /\ w_pc[v] = "fetch"
    /\ m_pc = "sleep"

\* n is a multiple of k
IsMultiple(n, k) == \E q \in (-n)..n : n = q * k
\* what a sample of the progress loop does, as the claim has it
SampleAsClaimed ==
  (m_pc = "read" /\ m_pc' # "read") =>
    /\ lock = {MainTask}
    /\ m_printed' <=> (stats.processed > 0 /\ IsMultiple(stats.processed, print_every))
    /\ m_pc' = (IF stats.processed >= total THEN "stop" ELSE "sleep")
    /\ m_pc' = "stop" => (m_processed' = stats.processed /\ m_unique' = stats.unique)

\* C25: each pass of the progress loop reads processed and unique together
\* while it holds the lock, prints a line exactly when processed > 0 is a
\* multiple of print_every, and the loop ends at the first sample with
\* processed >= total (and goes on at every other sample).
C25_SampleReportsAndEnds == [][SampleAsClaimed]_vars

\* The same property for the runs whose print_every is not 0: it holds there.
SampleReportsAndEndsUnlessZero == [][print_every # 0 => SampleAsClaimed]_vars

\* C26: whatever print_every is, the progress loop never ends the run: it does
\* not raise, the workers are never stopped by it, and a run that returns
\* returns the accepted sequence with every point counted.
C26_ReporterAdvisory ==
  /\ Running
  /\ m_pc = "done" => (result = unique_panoids /\ stats.processed = total)

\* s is a prefix of t
IsPrefix(s, t) == Len(s) <= Len(t) /\ \A i \in 1..Len(s) : s[i] = t[i]

\* C28: the accepted sequence only grows at its end: every step leaves the
\* records it holds in their places, and a record whose id is in the sequence
\* already is never put in.
C28_AppendOnly ==
  [][/\ IsPrefix(unique_panoids, unique_panoids')
     /\ Len(unique_panoids') <= Len(unique_panoids) + 1
     /\ \A i \in (Len(unique_panoids) + 1)..Len(unique_panoids') :
          unique_panoids'[i].panoid \notin Accepted]_vars

\* C28's case: two points resolved to one id; the record of the worker that
\* came to the dedup step first is in the sequence and the other worker has
\* left the step with its own record discarded.
C28_Witness ==
  /\ Len(unique_panoids) = 1
  /\ \E w \in Workers :
       /\ w_pc[w] = "task_done"
       /\ w_best[w].panoid = unique_panoids[1].panoid
       /\ w_best[w] # unique_panoids[1]

InDedup == \E w \in Workers : w_pc[w] \in {"dedup", "insert"}

\* C29: in every state with no worker inside the dedup block, unique = size of
\* the seen set = length of the accepted sequence, and the ids of the accepted
\* sequence are the members of the seen set.
C29_CountersAgreeThroughout ==
  ~InDedup =>
    /\ stats.unique = Cardinality(seen_panoids)
    /\ stats.unique = Len(unique_panoids)
    /\ Accepted = seen_panoids

\* C29's case: the run is under way: an id is accepted, a lookup is in flight
\* and the progress loop has not ended.
C29_Witness ==
  /\ ~InDedup
  /\ m_pc = "sleep"
  /\ stats.unique = 1
  /\ stats.processed < total
  /\ \E w \in Workers : w_pc[w] = "fetch"

\* C30: no step lowers processed or unique, and in every state
\* 0 <= unique <= processed <= total.
C30_CountersMonotone ==
  [][/\ stats'.processed >= stats.processed
     /\ stats'.unique >= stats.unique
     /\ 0 <= stats.unique /\ stats.unique <= stats.processed /\ stats.processed <= total
     /\ 0 <= stats'.unique /\ stats'.unique <= stats'.processed
     /\ stats'.processed <= total]_vars

\* C30's case: both points are counted and one id is accepted.
C30_Witness ==
  /\ total = 2
  /\ stats.processed = 2
  /\ stats.unique = 1

\* the workers that hold an item they took and have not marked done
InHand == {w \in Workers : w_pc[w] \notin {"get", "exit"}}

\* C31: every item taken from the queue is marked done once by the worker that
\* took it: the unfinished count is the items still queued plus the items in
\* a worker's hands and is never negative; once the shutdown signals are in
\* and every worker has left, the count is 0, so queue.join() returns; the
\* queue is empty when run_requests returns.
C31_TaskDoneOncePerItem ==
  /\ unfinished >= 0
  /\ unfinished = Len(queue) + Cardinality(InHand)
  /\ (m_pc = "join" /\ Exited = Workers) => unfinished = 0
  /\ m_pc \in {"gather", "done"} => (queue = <<>> /\ unfinished = 0)

\* C31's case: the shutdown signals are in the queue while a worker still has
\* its point in hand and another worker has taken its signal and left.
C31_Witness ==
  /\ m_pc = "join"
  /\ \E w, v \in Workers :
       /\ w_pc[w] = "task_done"
       /\ w_item[w] # Stop
       /\ w_pc[v] = "exit"
  /\ queue = <<Stop>>
  /\ unfinished = 2

\* a result the dedup gate must pass over: no dict, or a dict without an id
Malformed(best) == best.kind # "dict" \/ best.panoid = NoPid

\* C32: a lookup result that is no dict, or whose panoid is missing or empty,
\* is counted in processed and goes to task_done without the dedup block: it
\* is never put into the seen set or the accepted sequence and never counted
\* in unique; every accepted record is a dict with a non-empty id.
C32_MalformedOnlyCounts ==
  /\ \A w \in Workers :
       Malformed(w_best[w]) =>
         /\ w_pc[w] \notin {"lock2", "dedup", "insert"}
         /\ w_pc[w] = "task_done" => counted[w_item[w]] = 1
  /\ \A i \in 1..Len(unique_panoids) : ~Malformed(unique_panoids[i])
  /\ NoPid \notin seen_panoids
  /\ stats.unique <= hits

\* C32's case: one worker has counted a point whose lookup gave a dict without
\* an id, another one a point whose lookup gave something that is no dict;
\* nothing is accepted.
C32_Witness ==
  \E w, v \in Workers :
    /\ w_pc[w] = "task_done" /\ w_pc[v] = "task_done"
    /\ w_best[w] = DictResult(NoPid, w_item[w])
    /\ w_best[v].kind = "other"
    /\ stats.processed = 2
    /\ stats.unique = 0
    /\ unique_panoids = <<>>
    /\ seen_panoids = {}

\* C33: with no worker and at least one point nothing is ever pulled,
\* processed stays 0, the progress loop never sees processed >= total and
\* run_requests never comes to its shutdown or its return.
C33_NoWorkerNoReturn ==
  (concurrency = 0 /\ total >= 1) =>
    /\ Len(queue) = total
    /\ \A p \in Points : pulled[p] = 0
    /\ stats.processed = 0
    /\ m_pc \in {"sleep", "read"}
    /\ result = <<>>

\* C33's case: the progress loop has come to a sample with two points queued
\* and no worker to take them.
C33_Witness ==
  /\ concurrency = 0
  /\ total = 2
  /\ m_pc = "read"
  /\ Len(queue) = 2

\* ------------------------------------------------- fetch_best_panoid's claims
FetchSucceeded == f_resp.kind = "response" /\ ~AttemptRaises(f_resp)
Key(i) == d_km(f_resp.panoids[i])
Parseable(i) == f_resp.panoids[i].lat.ok /\ f_resp.panoids[i].lon.ok

\* C8: a call whose first k < max_retries attempts fail and whose next attempt
\* succeeds returns what that attempt gives (None for an empty list, else an
\* element of its list); a call returns after a failed attempt only when
\* max_retries attempts have failed, and then it returns None; no error leaves
\* the call.
C8_RetryThenResult ==
  /\ f_pc # "raised"
  /\ f_failed <= f_max_retries
  /\ f_pc = "returned" =>
       IF FetchSucceeded
         THEN /\ f_failed < f_max_retries
              /\ f_failed = f_attempt
              /\ IF f_resp.panoids = <<>> THEN f_ret = 0
                 ELSE f_ret \in 1..Len(f_resp.panoids)
         ELSE /\ f_failed = f_max_retries
              /\ f_ret = 0

\* C8's case: two failed attempts, then a third one whose candidate is returned.
C8_Witness ==
  /\ f_pc = "returned"
  /\ f_failed = 2
  /\ f_max_retries > 2
  /\ FetchSucceeded
  /\ f_ret >= 1

\* C10: the element returned for a non-empty parsed list has a least distance to
\* the query point, unparseable coordinates counting as +infinity: it is never
\* an unparseable one when some candidate is parseable.
C10_NearestReturned ==
  (f_pc = "returned" /\ FetchSucceeded /\ f_resp.panoids # <<>>) =>
    /\ f_ret \in 1..Len(f_resp.panoids)
    /\ \A j \in 1..Len(f_resp.panoids) : ~Less(Key(j), Key(f_ret))
    /\ (\E j \in 1..Len(f_resp.panoids) : Parseable(j)) => Parseable(f_ret)

\* C10's case: the list begins with an unparseable candidate and a farther
\* candidate precedes the nearest one, which is returned.
C10_Witness ==
  /\ f_pc = "returned"
  /\ FetchSucceeded
  /\ Len(f_resp.panoids) = 3
  /\ ~Parseable(1)
  /\ Parseable(2) /\ Parseable(3)
  /\ Less(Key(3), Key(2))
  /\ f_ret = 3

\* a response of status 200 whose body parses to no candidate
EmptyParse(resp) ==
  resp.kind = "response" /\ resp.status = 200 /\ resp.parses /\ resp.panoids = <<>>

\* C21: an attempt whose response has status 200 and parses to no candidate ends
\* the call at once: None is returned with no sleep and no further attempt,
\* whatever attempts remain; nothing follows a return.
C21_EmptyParseEnds ==
  [][/\ f_pc # "returned"
     /\ (f_pc = "attempt" /\ f_attempt < f_max_retries /\ EmptyParse(f_resp')) =>
          /\ f_pc' = "returned"
          /\ f_ret' = 0
          /\ f_waits' = f_waits
          /\ f_attempt' = f_attempt
          /\ f_failed' = f_failed]_vars

\* C21's case: the first attempt failed and was waited for, the second one
\* parsed to an empty list and the call returned None with attempts left.
C21_Witness ==
  /\ f_pc = "returned"
  /\ EmptyParse(f_resp)
  /\ f_max_retries = max_retries
  /\ f_failed = 1
  /\ f_attempt = 1
  /\ f_waits = <<1>>
  /\ f_ret = 0

\* the statuses of the 2xx class
Is2xx(status) == status \in 200..299

\* C22: an attempt fails, and is retried, exactly when its status is not 2xx, a
\* transport error or timeout occurs, or the response cannot be parsed; every
\* response with a 2xx status is parsed as a success.
C22_FailsUnless2xx ==
  [][(f_pc = "attempt" /\ f_attempt < f_max_retries) =>
       (f_failed' = f_failed + 1 <=>
          \/ f_resp'.kind = "error"
          \/ ~Is2xx(f_resp'.status)
          \/ ~f_resp'.parses)]_vars

\* C23: of several candidates at the same least distance, unparseable ones
\* counting as +infinity, the one returned is the first of the parsed list.
C23_FirstOfTies ==
  (f_pc = "returned" /\ FetchSucceeded /\ f_resp.panoids # <<>>) =>
    /\ f_ret \in 1..Len(f_resp.panoids)
    /\ \A j \in 1..(f_ret - 1) : Less(Key(f_ret), Key(j))

\* C23's case: three candidates, the second and the third at the same least
\* distance on either side of the query point: the second is returned.
C23_Witness ==
  /\ f_pc = "returned"
  /\ FetchSucceeded
  /\ Len(f_resp.panoids) = 3
  /\ \A j \in 1..3 : Parseable(j)
  /\ Less(Key(2), Key(1))
  /\ Key(2) = Key(3)
  /\ f_resp.panoids[2] # f_resp.panoids[3]
  /\ f_ret = 2

\* ---------------------------------------------------- the point source's claims
CsvReturned == p_ran = <<"csv">> /\ p_pc \in {"built", "engine", "reingested"}
GridReturned == p_ran = <<"grid">> /\ p_pc \in {"built", "engine"}
\* the n-th least element of a set of numbers
Nth(S, n) == CHOOSE i \in S : Cardinality({j \in S : j <= i}) = n

\* row i of the file: whether both its cells are numbers, the numbers, their key
RowParses(i) == ParseFloat(p_rows[i].latitude).ok /\ ParseFloat(p_rows[i].longitude).ok
Value(i) == <<ParseFloat(p_rows[i].latitude).v, ParseFloat(p_rows[i].longitude).v>>
RowKey(i) == key(Value(i)[1], Value(i)[2])
\* the rows that parse and whose key no earlier parsed row has
FirstRows ==
  {i \in 1..Len(p_rows) :
     /\ RowParses(i)
     /\ \A j \in 1..(i - 1) : RowParses(j) => RowKey(j) # RowKey(i)}

\* C11: build_points_from_csv returns, in file order, exactly the first parsed
\* row of every distinct key (round(lat, 6), round(lon, 6)), with the row's own
\* unrounded values; no two returned points have the same rounded key.
C11_FirstRowPerKey ==
  CsvReturned =>
    /\ Len(p_points) = Cardinality(FirstRows)
    /\ \A n \in 1..Len(p_points) : p_points[n] = Value(Nth(FirstRows, n))
    /\ \A a, b \in 1..Len(p_points) :
         key(p_points[a][1], p_points[a][2]) = key(p_points[b][1], p_points[b][2])
           => a = b

\* C11's case: a row that does not parse, then two rows of one key and
\* different values: the first of the two is returned as it was written.
C11_Witness ==
  /\ CsvReturned
  /\ Len(p_rows) = 3
  /\ ~RowParses(1)
  /\ RowParses(2) /\ RowParses(3)
  /\ RowKey(2) = RowKey(3)
  /\ Value(2) # Value(3)
  /\ p_points = <<Value(2)>>
  /\ Value(2) # RowKey(2)

\* a file of two rows that both parse
TwoRows == CsvReturned /\ Len(p_rows) = 2 /\ RowParses(1) /\ RowParses(2)
\* the decimal expansion of x >= 0 up to its n-th decimal place
Digits(x, n) == x \div Pow10(Decimals - n)
\* the multiple of 10^-n nearest to x >= 0
Nearest(x, n) ==
  LET q == Pow10(Decimals - n)
  IN CHOOSE m \in {k * q : k \in 0..(x \div q + 1)} : 2 * Abs(m - x) < q
SameDigits == \A c \in 1..2 : Digits(Value(1)[c], 6) = Digits(Value(2)[c], 6)
SameRounded == \A c \in 1..2 : Nearest(Value(1)[c], 6) = Nearest(Value(2)[c], 6)

\* C12 as stated: two rows that differ only beyond the 6th decimal place come to
\* one output point, two rows that differ at the 6th decimal place or before it
\* both remain.
C12_DigitsDecide ==
  TwoRows =>
    IF SameDigits THEN Len(p_points) = 1
    ELSE Len(p_points) = 2 /\ p_points[1] # p_points[2]

\* C12: two rows whose latitudes and whose longitudes round to the same 6-decimal
\* values come to one output point, the first row; two rows whose rounded
\* latitudes or rounded longitudes differ both remain, in file order.
C12_RoundedValuesDecide ==
  TwoRows =>
    IF SameRounded THEN p_points = <<Value(1)>>
    ELSE p_points = <<Value(1), Value(2)>>

\* C12's case: 0.0000004 and 0.0000006 differ only in the 7th decimal and round
\* to 0.000000 and 0.000001: both rows remain.
C12_Witness ==
  /\ TwoRows
  /\ SameDigits
  /\ ~SameRounded
  /\ Len(p_points) = 2

\* the k-th point of the lattice in the order of itertools.product, and the
\* places of the lattice points within radius_km of the center
LatticePoint(k) ==
  LET x == (k - 1) \div (p_resolution + 1)
      y == (k - 1) % (p_resolution + 1)
      step == p_radius * (Fine \div p_resolution)
  IN <<p_center[1] + (p_resolution - 2 * x) * step,
       p_center[2] + (2 * y - p_resolution) * step>>
Inside ==
  {k \in 1..((p_resolution + 1) * (p_resolution + 1)) :
     within_radius(LatticePoint(k), p_center, p_radius)}
FilteredLattice ==
  /\ Len(p_points) = Cardinality(Inside)
  /\ \A m \in 1..Len(p_points) : p_points[m] = LatticePoint(Nth(Inside, m))

\* C13 as stated: for every center, radius_km and resolution the call returns
\* the lattice points within radius_km, in lattice order.
C13_LatticeWithinRadius ==
  p_ran = <<"grid">> => (p_pc # "raised" /\ FilteredLattice)

\* C13: for every resolution >= 1 build_points_from_grid returns exactly the
\* points of the (resolution+1) x (resolution+1) lattice over center +/-
\* radius_km/70 degrees whose distance_km to the center is <= radius_km, in
\* lattice order; every returned point lies within radius_km of the center.
C13_LatticeWithinRadiusFromOne ==
  (p_ran = <<"grid">> /\ p_resolution >= 1) =>
    /\ p_pc # "raised"
    /\ FilteredLattice
    /\ \A m \in 1..Len(p_points) : within_radius(p_points[m], p_center, p_radius)

\* C13's case: a lattice of 16 points of which some are kept and some are not.
C13_Witness ==
  /\ GridReturned
  /\ p_resolution = 3
  /\ p_radius >= 1
  /\ Len(p_points) > 0
  /\ Len(p_points) < 16
  /\ p_points[1] = LatticePoint(Nth(Inside, 1))

\* a lattice point next to the center: less than one lattice step from it on
\* either axis (the center itself when the resolution is even)
NextToCenter(p) ==
  /\ 2 * Abs(p[1] - p_center[1]) * p_resolution <= 2 * p_radius * Fine
  /\ 2 * Abs(p[2] - p_center[2]) * p_resolution <= 2 * p_radius * Fine
ContainsNearest == \E m \in 1..Len(p_points) : NextToCenter(p_points[m])

\* C14 as stated: for every resolution >= 1 the result contains the center or
\* the lattice point nearest to it, so it is never empty.
C14_NearestAlwaysKept ==
  (p_ran = <<"grid">> /\ p_resolution >= 1) => (p_pc # "raised" /\ ContainsNearest)

\* C14: for every resolution >= 2 and radius_km >= 0 the result of
\* build_points_from_grid contains the center itself or the lattice points
\* nearest to the center, so it is not empty.
C14_NearestKeptFromTwo ==
  (p_ran = <<"grid">> /\ p_resolution >= 2) => (p_pc # "raised" /\ ContainsNearest)

\* C14's case: an odd resolution, whose lattice has no point at the center:
\* the four points around the center are kept.
C14_Witness ==
  /\ GridReturned
  /\ p_resolution = 3
  /\ p_radius >= 1
  /\ \A m \in 1..Len(p_points) : p_points[m] # p_center
  /\ Cardinality({m \in 1..Len(p_points) : NextToCenter(p_points[m])}) = 4

\* C15: both producers return a sequence with no point twice: the tabular one
\* for every file, the grid for every center, radius_km >= 0 and resolution >= 1.
C15_NoPointTwice ==
  (CsvReturned \/ (GridReturned /\ p_radius >= 0 /\ p_resolution >= 1)) =>
    \A a, b \in 1..Len(p_points) : p_points[a] = p_points[b] => a = b

\* the spellings of the two column names in the headers
LatitudeNames == {"latitude", "Latitude", "LATITUDE"}
LongitudeNames == {"longitude", "Longitude", "LONGITUDE"}
HasLatitude == \E i \in 1..Len(p_header) : p_header[i] \in LatitudeNames
HasLongitude == \E i \in 1..Len(p_header) : p_header[i] \in LongitudeNames

\* C16: build_points_from_csv fails with an error and returns no points when
\* the header has no column named latitude or no column named longitude, in
\* whatever case; with both columns, in any case and among other columns, it
\* does not fail.
C16_HeaderDecides ==
  p_ran = <<"csv">> =>
    IF HasLatitude /\ HasLongitude
      THEN p_pc # "raised" /\ p_error = ""
      ELSE p_pc = "raised" /\ p_error = "ValueError" /\ p_points = <<>>

\* C16's case: a header with a latitude column and no longitude column, over
\* rows that would parse.
C16_Witness ==
  /\ p_pc = "raised"
  /\ p_ran = <<"csv">>
  /\ HasLatitude
  /\ ~HasLongitude
  /\ \E i \in 1..Len(p_rows) : RowParses(i)

\* C17: a configuration that resolves to no query points never has the engine
\* run over the empty point set.
C17_EmptySetNeverRun ==
  p_pc = "engine" => p_points # <<>>

\* C18: build_points_from_csv is the producer exactly when csv_points is set and
\* names an existing file, build_points_from_grid otherwise; one producer runs.
C18_SourceByCsvPath ==
  /\ Len(p_ran) <= 1
  /\ p_pc # "main" =>
       /\ Len(p_ran) = 1
       /\ p_ran[1] = "csv" <=> p_csv_path \in Files
       /\ p_ran[1] = "grid" <=> p_csv_path \notin Files

\* C18's case: csv_points is set and names a directory: the grid is built.
C18_Witness ==
  /\ p_pc = "engine"
  /\ p_csv_path \in Directories
  /\ p_ran = <<"grid">>

Without(rows, i) == [k \in 1..(Len(rows) - 1) |-> IF k < i THEN rows[k] ELSE rows[k + 1]]

\* C27: a row whose latitude or longitude is no number raises nothing and
\* changes nothing for the other rows: the points returned are those returned
\* for the file without that row.
C27_BadRowDropped ==
  (p_ran = <<"csv">> /\ HasLatitude /\ HasLongitude) =>
    /\ p_error = ""
    /\ \A i \in 1..Len(p_rows) :
         ~RowParses(i) =>
           p_points = build_points_from_csv(p_header, Without(p_rows, i)).pts

\* C27's case: a row that does not parse between two rows of different keys.
C27_Witness ==
  /\ CsvReturned
  /\ Len(p_rows) = 3
  /\ RowParses(1) /\ ~RowParses(2) /\ RowParses(3)
  /\ p_points = <<Value(1), Value(3)>>

\* the wait the backoff schedule gives after the i-th failed attempt, in seconds
RECURSIVE Pow2(_)
Pow2(n) == IF n = 0 THEN 1 ELSE 2 * Pow2(n - 1)
Backoff(i) == IF Pow2(i - 1) < 10 THEN Pow2(i - 1) ELSE 10

\* C20: within one call the attempts come one after another and are at most
\* max_retries: an attempt begins only when every earlier attempt has failed
\* and been waited for.  The wait after the i-th failed attempt is
\* min(2^(i-1), 10) seconds, and no wait follows the last failed attempt.
C20_BackoffSchedule ==
  /\ f_failed <= f_max_retries
  /\ Len(f_waits) = f_attempt
  /\ f_pc = "attempt" => f_failed = f_attempt
  /\ f_pc = "sleep" => f_failed = f_attempt + 1 /\ f_failed < f_max_retries
  /\ \A i \in 1..Len(f_waits) : f_waits[i] = Backoff(i)
  /\ (f_pc = "returned" /\ ~FetchSucceeded /\ f_max_retries > 0) =>
       /\ f_failed = f_max_retries
       /\ Len(f_waits) = f_max_retries - 1

\* C20's case: six attempts have failed, waited for by 1, 2, 4, 8 and 10
\* seconds, and the call has returned without a further wait.
C20_Witness ==
  /\ f_pc = "returned"
  /\ f_failed = 6
  /\ f_waits = <<1, 2, 4, 8, 10>>

\* ------------------------------------------------------- filter_pano_json
\* most records in one call
MaxRecords == 2

\* the values json.load gives: None, a bool, an int, a float, a str, a list;
\* n is the number of an int, s the text of a str
None == [t |-> "None", n |-> 0, s |-> ""]
Bool(b) == [t |-> "bool", n |-> IF b THEN 1 ELSE 0, s |-> ""]
Num(n) == [t |-> "int", n |-> n, s |-> ""]
\* floats are counted in halves: Float(4039) is 2019.5, Float(4040) is 2020.0
Float(h) == [t |-> "float", n |-> h, s |-> ""]
Str(s) == [t |-> "str", n |-> 0, s |-> s]
List == [t |-> "list", n |-> 0, s |-> ""]
\* a key the dict does not have
Absent == [t |-> "absent", n |-> 0, s |-> ""]

\* float.is_integer() and int() of a float
is_integer(x) == x.n % 2 = 0
int_of_float(x) == x.n \div 2

\* str.strip(), str.isdigit(), str.startswith("-"), s[1:] and int(s) on the
\* texts of the model
strip(s) ==
  CASE s = " 2019 " -> "2019"
    [] s = " " -> ""
    [] OTHER -> s
isdigit(s) == s \in {"2019", "07", "13", "5"}
startswith_minus(s) == s \in {"-5", "-"}
from_1(s) ==
  CASE s = "-5" -> "5"
    [] s = "-" -> ""
    [] OTHER -> "2019"
int(s) ==
  CASE s = "2019" -> 2019
    [] s = "07" -> 7
    [] s = "13" -> 13
    [] s = "5" -> 5
    [] s = "-5" -> -5

\* _to_int without its refusal of bool: isinstance(True, int) holds
to_int_of_bool(x) ==
  IF x.t = "None" THEN None
  ELSE IF x.t \in {"int", "bool"} THEN Num(x.n)
  ELSE IF x.t = "float" /\ is_integer(x) THEN Num(int_of_float(x))
  ELSE IF x.t = "str"
       THEN LET s == strip(x.s)
            IN  IF isdigit(s) \/ (startswith_minus(s) /\ isdigit(from_1(s)))
                THEN Num(int(s))
                ELSE None
  ELSE None

\* _to_int: None for what is not an integer, else the int
_to_int(x) ==
  IF x.t = "None" THEN None
  ELSE IF x.t = "bool" THEN None
  ELSE IF x.t = "int" THEN x
  ELSE IF x.t = "float" /\ is_integer(x) THEN Num(int_of_float(x))
  ELSE IF x.t = "str"
       THEN LET s == strip(x.s)
            IN  IF isdigit(s) \/ (startswith_minus(s) /\ isdigit(from_1(s)))
                THEN Num(int(s))
                ELSE None
  ELSE None

\* the keys of the model's dicts; heading stands for every other key
Keys == {"panoid", "lat", "lon", "year", "month", "heading"}
\* the dict of the keys that are not Absent
Dict(panoid, lat, lon, year, month, heading) ==
  LET all == [panoid |-> panoid, lat |-> lat, lon |-> lon, year |-> year,
              month |-> month, heading |-> heading]
  IN  [k \in {j \in Keys : all[j] # Absent} |-> all[k]]
\* isinstance(item, dict) and item.get(k)
isdict(item) == DOMAIN item \subseteq Keys
get(item, k) == IF k \in DOMAIN item THEN item[k] ELSE None

\* the years and months of the records of the model
Years == {Absent, None, Num(2019), Float(4040), Float(4039), Bool(TRUE),
          Str(" 2019 "), Str("-5"), Str("abc"), List}
Months == {Absent, None, Num(7), Num(13), Num(0), Float(14), Bool(TRUE),
           Str("07"), Str("13"), Str("abc")}
\* the records of the model: an element that is no dict, dicts short of one
\* of panoid, lat and lon, and dicts with all three
Items ==
  {Str("junk"),
   Dict(Absent, Float(90), Float(-10), Num(2019), Num(7), Absent),
   Dict(Str("a"), None, Float(-10), Num(2019), Num(7), Absent),
   Dict(Str("a"), Float(90), Absent, Num(2019), Absent, Absent)}
  \cup {Dict(Str("a"), Float(90), Float(-10), y, m, Num(90)) :
          y \in Years, m \in {Absent, Num(7)}}
  \cup {Dict(Str("b"), Str("abc"), Float(-11), Num(2019), m, Absent) : m \in Months}
  \cup {Dict(Str("b"), Float(91), Float(-11), y, m, Absent) :
          y \in {Absent, None}, m \in {Num(13), Str("abc")}}

StatNames == {"input", "kept", "skipped_no_year", "skipped_missing_fields",
              "skipped_invalid_year", "skipped_invalid_month", "kept_year_only",
              "kept_year_month", "dropped_bad_month_but_kept_year"}
Bump(st, k) == [st EXCEPT ![k] = @ + 1]

\* one pass of the loop body with the item: the new out and stats
pass(item, drop_invalid_month, out, stats0) ==
  LET st == Bump(stats0, "input")
      skip(k) == [out |-> out, stats |-> Bump(st, k)]
  IN
  IF ~isdict(item) THEN skip("skipped_missing_fields")
  ELSE
  LET panoid == get(item, "panoid")
      lat == get(item, "lat")
      lon == get(item, "lon")
  IN
  IF panoid = None \/ lat = None \/ lon = None THEN skip("skipped_missing_fields")
  ELSE
  LET year_raw == get(item, "year")
      month_raw == get(item, "month")
  IN
  IF year_raw = None THEN skip("skipped_no_year")
  ELSE
  LET year == _to_int(year_raw) IN
  IF year = None THEN skip("skipped_invalid_year")
  ELSE
  LET month0 == _to_int(month_raw)
      month_present == "month" \in DOMAIN item /\ month_raw # None
      bad == month_present /\ (month0 = None \/ ~(1 <= month0.n /\ month0.n <= 12))
  IN
  IF bad /\ ~drop_invalid_month THEN skip("skipped_invalid_month")
  ELSE
  LET month == IF bad THEN None ELSE month0
      st2 == IF bad THEN Bump(st, "dropped_bad_month_but_kept_year") ELSE st
      rec == Dict(panoid, lat, lon, year, IF month = None THEN Absent ELSE month,
                  Absent)
      st3 == Bump(st2, "kept")
  IN  [out |-> Append(out, rec),
       stats |-> IF "month" \in DOMAIN rec THEN Bump(st3, "kept_year_month")
                                           ELSE Bump(st3, "kept_year_only")]

\* filter_pano_json is called
FilterStart ==
  /\ r_pc = "loop"
  /\ r_records \in UNION {[1..n -> Items] : n \in 0..MaxRecords}
  /\ r_drop_invalid_month \in BOOLEAN
  /\ r_i = 0
  /\ r_out = <<>>
  /\ r_stats = [k \in StatNames |-> 0]

\* for item in records: one pass
FilterItem ==
  /\ r_pc = "loop"
  /\ r_i < Len(r_records)
  /\ LET after == pass(r_records[r_i + 1], r_drop_invalid_month, r_out, r_stats)
     IN  /\ r_out' = after.out
         /\ r_stats' = after.stats
  /\ r_i' = r_i + 1
  /\ UNCHANGED <<engineVars, fetchVars, pointVars, downloadVars, r_pc, r_records,
                 r_drop_invalid_month>>

\* return out, stats
FilterReturn ==
  /\ r_pc = "loop"
  /\ r_i = Len(r_records)
  /\ r_pc' = "returned"
  /\ UNCHANGED <<engineVars, fetchVars, pointVars, downloadVars, r_records,
                 r_drop_invalid_month, r_i, r_out, r_stats>>

FilterNext ==
  \/ FilterItem
  \/ FilterReturn

FilterInit ==
  /\ EngineIdle
  /\ FetchIdle
  /\ PointsIdle
  /\ DownloadIdle
  /\ FilterStart

SpecFilter == FilterInit /\ [][FilterNext]_vars

\* ------------------------------------------------- filter_pano_json's claims
\* the integer a value of the model stands for, if it stands for one
AsInteger(v) ==
  CASE v \in {Num(2019), Str(" 2019 ")} -> {2019}
    [] v = Float(4040) -> {2020}
    [] v = Str("-5") -> {-5}
    [] v \in {Num(7), Float(14), Str("07")} -> {7}
    [] v \in {Num(13), Str("13")} -> {13}
    [] v = Num(0) -> {0}
    [] OTHER -> {}
\* the dict has the key, with a value other than None
HasField(item, k) == isdict(item) /\ k \in DOMAIN item /\ item[k] # None
ValidMonth(item) == HasField(item, "month") /\ AsInteger(item["month"]) \cap (1..12) # {}
ShouldKeep(item) ==
  /\ \A k \in {"panoid", "lat", "lon", "year"} : HasField(item, k)
  /\ AsInteger(item["year"]) # {}
  /\ (~r_drop_invalid_month /\ HasField(item, "month")) => ValidMonth(item)
TheOne(S) == CHOOSE n \in S : TRUE
\* the record kept for an item
KeptRecord(item) ==
  [k \in {"panoid", "lat", "lon", "year"} \cup (IF ValidMonth(item) THEN {"month"} ELSE {}) |->
     CASE k = "year" -> Num(TheOne(AsInteger(item["year"])))
       [] k = "month" -> Num(TheOne(AsInteger(item["month"])))
       [] OTHER -> item[k]]
\* the records the loop has been through that are to be kept
KeptSoFar == {i \in 1..r_i : ShouldKeep(r_records[i])}

\* C34: at every point of the loop out holds, in input order, exactly the
\* records gone through that have panoid, lat and lon and a year that is an
\* integer and, with drop_invalid_month off, no month outside 1..12; each as
\* panoid, lat, lon, the year as an int and the month, when valid, as an
\* int, and nothing else.  A record with no year is not among them.
C34_KeepsDatedRecords ==
  r_pc # "idle" =>
    /\ Len(r_out) = Cardinality(KeptSoFar)
    /\ \A n \in 1..Len(r_out) :
         LET item == r_records[Nth(KeptSoFar, n)]
         IN  /\ r_out[n] = KeptRecord(item)
             /\ DOMAIN r_out[n] \subseteq {"panoid", "lat", "lon", "year", "month"}
             /\ HasField(item, "year")
    /\ \A i \in 1..r_i :
         (isdict(r_records[i]) /\ ~HasField(r_records[i], "year")) => i \notin KeptSoFar

\* C34's case: with drop_invalid_month off the call has returned for a record
\* with a month and no year followed by one with a heading, the year " 2019 "
\* and the month 7: out is the second alone, as panoid, lat, lon, 2019 and 7.
C34_Witness ==
  /\ r_pc = "returned"
  /\ ~r_drop_invalid_month
  /\ r_records = <<Dict(Str("b"), Float(91), Float(-11), Absent, Num(13), Absent),
                   Dict(Str("a"), Float(90), Float(-10), Str(" 2019 "), Num(7), Num(90))>>
  /\ r_out = <<Dict(Str("a"), Float(90), Float(-10), Num(2019), Num(7), Absent)>>

\* ------------------------------------------------------------ run_batches
\* most panoramas, largest batch_size, most failed requests counted per tile
MaxPanoids == 3
MaxBatchSize == 2
MaxAttempts == 3
\* the tiles streetview.tiles_info lists for a panorama
TilesPerPano == 2

Panoids == 1..d_panoids
Tiles == 1..TilesPerPano
\* panoids[start : start + batch_size]
chunk == {p \in Panoids : d_start < p /\ p <= d_start + d_batch_size}
\* the download_one calls that have ended, with or without a panorama
Ended(p) == d_one[p] \in {"done", "failed"}
\* the tile download_tiles_async is at
Current(p) == d_tile[p] + 1

\* a retry loop that ends after three failed requests
TileGivesUpAfterThree(n) == n >= 3
\* while True: no count of failed requests ends the loop
TileGivesUp(n) == FALSE

\* run_batches is called
DownloadStart ==
  /\ d_pc = "loop"
  /\ d_panoids \in 0..MaxPanoids
  /\ d_batch_size \in 0..MaxBatchSize
  /\ d_start = 0
  /\ d_bad \in {{}} \cup {{<<p, t>>} : p \in Panoids, t \in Tiles}
  /\ d_one = [p \in Panoids |-> "new"]
  /\ d_tile = [p \in Panoids |-> 0]
  /\ d_attempts = [p \in Panoids |-> 0]
  /\ d_written = {}
  /\ d_completed = 0

\* range(0, len(panoids), 0) raises ValueError
BatchRaises ==
  /\ d_pc = "loop"
  /\ d_batch_size = 0
  /\ d_pc' = "raised"
  /\ UNCHANGED <<engineVars, fetchVars, pointVars, filterVars, d_panoids, d_batch_size,
                 d_start, d_bad, d_one, d_tile, d_attempts, d_written, d_completed>>

\* the next start: asyncio.gather makes a task of download_one for each
\* panorama of the chunk
BatchGather ==
  /\ d_pc = "loop"
  /\ d_batch_size > 0
  /\ d_start < d_panoids
  /\ d_one' = [p \in Panoids |-> IF p \in chunk THEN "called" ELSE d_one[p]]
  /\ d_pc' = "gather"
  /\ UNCHANGED <<engineVars, fetchVars, pointVars, filterVars, d_panoids, d_batch_size,
                 d_start, d_bad, d_tile, d_attempts, d_written, d_completed>>

\* download_one up to its await: tiles_info lists the tiles, or raises into
\* the except clause
TilesInfo(p) ==
  /\ d_one[p] = "called"
  /\ \E ok \in BOOLEAN :
       d_one' = [d_one EXCEPT ![p] = IF ok THEN "tiles" ELSE "failed"]
  /\ UNCHANGED <<engineVars, fetchVars, pointVars, filterVars, d_pc, d_panoids,
                 d_batch_size, d_start, d_bad, d_tile, d_attempts, d_written,
                 d_completed>>

\* one pass of while True that reaches break: the tile is written, and the
\* for loop goes on to the next tile or ends
TileDownloaded(p) ==
  /\ d_one[p] = "tiles"
  /\ <<p, Current(p)>> \notin d_bad
  /\ d_written' = d_written \cup {<<p, Current(p)>>}
  /\ d_tile' = [d_tile EXCEPT ![p] = @ + 1]
  /\ d_attempts' = [d_attempts EXCEPT ![p] = 0]
  /\ d_one' = [d_one EXCEPT ![p] = IF Current(p) = TilesPerPano THEN "stitch" ELSE @]
  /\ UNCHANGED <<engineVars, fetchVars, pointVars, filterVars, d_pc, d_panoids,
                 d_batch_size, d_start, d_bad, d_completed>>

\* one pass of while True that ends in the except clause: the traceback is
\* printed and the loop begins again
TileFails(p) ==
  /\ d_one[p] = "tiles"
  /\ d_attempts[p] < MaxAttempts
  /\ d_attempts' = [d_attempts EXCEPT ![p] = @ + 1]
  /\ d_one' = [d_one EXCEPT ![p] = IF TileGivesUp(d_attempts[p] + 1) THEN "failed" ELSE @]
  /\ UNCHANGED <<engineVars, fetchVars, pointVars, filterVars, d_pc, d_panoids,
                 d_batch_size, d_start, d_bad, d_tile, d_written, d_completed>>

\* the rest of download_one: stitch, delete the tiles, project; an exception
\* ends it in the except clause
Stitch(p) ==
  /\ d_one[p] = "stitch"
  /\ \E ok \in BOOLEAN :
       d_one' = [d_one EXCEPT ![p] = IF ok THEN "done" ELSE "failed"]
  /\ UNCHANGED <<engineVars, fetchVars, pointVars, filterVars, d_pc, d_panoids,
                 d_batch_size, d_start, d_bad, d_tile, d_attempts, d_written,
                 d_completed>>

\* gather returns when every download_one of the chunk has ended; the
\* "Completed batch" line is printed
GatherReturns ==
  /\ d_pc = "gather"
  /\ \A p \in chunk : Ended(p)
  /\ d_completed' = d_completed + 1
  /\ d_start' = d_start + d_batch_size
  /\ d_pc' = "loop"
  /\ UNCHANGED <<engineVars, fetchVars, pointVars, filterVars, d_panoids, d_batch_size,
                 d_bad, d_one, d_tile, d_attempts, d_written>>

\* the range is exhausted: the session is closed and run_batches returns
RunBatchesReturns ==
  /\ d_pc = "loop"
  /\ d_batch_size > 0
  /\ d_start >= d_panoids
  /\ d_pc' = "returned"
  /\ UNCHANGED <<engineVars, fetchVars, pointVars, filterVars, d_panoids, d_batch_size,
                 d_start, d_bad, d_one, d_tile, d_attempts, d_written, d_completed>>

DownloadOne(p) ==
  \/ TilesInfo(p)
  \/ TileDownloaded(p)
  \/ TileFails(p)
  \/ Stitch(p)

DownloadNext ==
  \/ BatchRaises
  \/ BatchGather
  \/ \E p \in Panoids : DownloadOne(p)
  \/ GatherReturns
  \/ RunBatchesReturns

DownloadInit ==
  /\ EngineIdle
  /\ FetchIdle
  /\ PointsIdle
  /\ FilterIdle
  /\ DownloadStart

SpecDownload == DownloadInit /\ [][DownloadNext]_vars

\* ------------------------------------------------------ run_batches' claims
\* download_tiles_async of p is at a tile whose request always fails
Stuck(p) == d_one[p] = "tiles" /\ <<p, Current(p)>> \in d_bad
\* the batches before the one of panorama p
BatchesBefore(p) == (p - 1) \div d_batch_size

\* while a download is at a tile whose request always fails, it is in the
\* batch being gathered, no later batch has begun and no line has been printed
\* for its batch; and no such tile is ever written
StuckHoldsBatch ==
  /\ \A e \in d_bad : e \notin d_written
  /\ \A p \in Panoids :
       Stuck(p) =>
         /\ d_pc = "gather"
         /\ p \in chunk
         /\ d_completed = BatchesBefore(p)
         /\ \A q \in Panoids : q > d_start + d_batch_size => d_one[q] = "new"

\* a download leaves a tile only by writing it; a failed request leaves the
\* download at its tile, ready for the next request; and a download at a tile
\* whose request always fails stays there, with its batch
RetriesInPlace ==
  \A p \in Panoids :
    /\ d_tile'[p] # d_tile[p] =>
         /\ d_tile'[p] = d_tile[p] + 1
         /\ <<p, Current(p)>> \in d_written'
    /\ d_attempts'[p] > d_attempts[p] =>
         /\ d_one'[p] = "tiles"
         /\ d_tile'[p] = d_tile[p]
         /\ d_attempts'[p] = d_attempts[p] + 1
    /\ Stuck(p) =>
         /\ d_one'[p] = "tiles"
         /\ d_tile'[p] = d_tile[p]
         /\ d_pc' = "gather"
         /\ d_start' = d_start
         /\ d_completed' = d_completed

\* C35: download_tiles_async asks for a tile again after every failed request,
\* however many have failed and without a wait, and goes to the next tile only
\* once the tile is written; a download at a tile whose request always fails
\* never ends, its batch is never completed and no later batch is begun.
C35_FailingTileHoldsAll == []StuckHoldsBatch /\ [][RetriesInPlace]_vars

\* C35's case: in a first batch of two, panorama 1 has failed three times at
\* its second tile, whose request always fails, after writing its first;
\* panorama 2 has ended; the third panorama has not been begun.
C35_Witness ==
  /\ d_panoids = 3
  /\ d_batch_size = 2
  /\ d_bad = {<<1, 2>>}
  /\ d_one = <<"tiles", "done", "new">>
  /\ d_tile[1] = 1
  /\ d_attempts[1] = 3
  /\ d_written = {<<1, 1>>, <<2, 1>>, <<2, 2>>}
  /\ d_pc = "gather"
  /\ d_completed = 0

====
